---- MODULE Spec2Model ----
(***************************************************************************)
(* The to-do list service of src/main.py: an in-memory list `tasks`, the   *)
(* id counter `next_id[0]`, and the five route handlers.                   *)
(*                                                                         *)
(* Spec      the handlers called one at a time (each handler one action).  *)
(* SpecConc  two handlers running in threads of the server's thread pool,  *)
(*           interleaved statement by statement.                           *)
(*                                                                         *)
(* Strings are sequences of one-character strings.  An Optional value is a *)
(* sequence of length 0 (Python None) or 1 (the value).                    *)
(***************************************************************************)
EXTENDS Integers, Sequences, FiniteSets, TLC

\* ---------------------------------------------------------------- bounds
\* The id counter is never advanced past MaxId + 1 by the sequential calls.
MaxId == 3

\* ------------------------------------------------------------- constants
\* The status codes of the routes; 422 is what the framework answers when
\* validate_title raises, 500 what it answers when a handler raises.
HTTP_200 == 200
HTTP_201 == 201
HTTP_204 == 204
HTTP_404 == 404
HTTP_422 == 422
HTTP_500 == 500

\* ----------------------------------------------------------------- state
VARIABLES
    tasks,      \* the list `tasks`
    next_id,    \* next_id[0]
    req,        \* the call being answered (what the client sent)
    resp,       \* its response: status code and body (a list of tasks)
    assigned,   \* history: every id a create has handed out
    deleted,    \* history: every id a delete has removed
    patched,    \* history: ids in the store whose title an update supplied
    th,         \* SpecConc: the two handler threads
    tasks0      \* SpecConc: the store the two threads started from

vars == <<tasks, next_id, req, resp, assigned, deleted, patched, th, tasks0>>

\* ------------------------------------------------------- optional values
None == <<>>
Some(v) == <<v>>
Val(o) == o[1]

\* ------------------------------------------------------------ str.strip
Whitespace == {" "}

RECURSIVE lstrip(_)
lstrip(s) ==
    IF s # <<>> /\ Head(s) \in Whitespace THEN lstrip(Tail(s)) ELSE s

RECURSIVE rstrip(_)
rstrip(s) ==
    IF s # <<>> /\ s[Len(s)] \in Whitespace
    THEN rstrip(SubSeq(s, 1, Len(s) - 1))
    ELSE s

strip(s) == rstrip(lstrip(s))

\* ----------------------------------------------------------- the models
Fields == {"title", "description", "completed"}

\* TaskBase.validate_title: raises when the stripped title is empty,
\* otherwise returns the stripped title.
validate_title_nostrip(v) == [ok |-> strip(v) # <<>>, value |-> v]

validate_title_nocheck(v) == [ok |-> TRUE, value |-> strip(v)]

validate_title(v) ==
    IF strip(v) = <<>>
    THEN [ok |-> FALSE, value |-> <<>>]
    ELSE [ok |-> TRUE, value |-> strip(v)]

\* TaskCreate(**body): `completed` defaults to False when the body omits it.
\* body.completed is an Optional: None stands for "omitted".
TaskCreate(body) ==
    LET v == validate_title(body.title) IN
    [ok |-> v.ok,
     title |-> v.value,
     description |-> body.description,
     completed |-> IF body.completed = None THEN FALSE ELSE Val(body.completed)]

\* Task(id=..., **task.model_dump()): the title validator runs again.
Task(id, dump) ==
    [id |-> id,
     title |-> Some(validate_title(dump.title).value),
     description |-> Some(dump.description),
     completed |-> Some(dump.completed)]

\* TaskUpdate: every field Optional with default None; `set` is pydantic's
\* model_fields_set, the fields the request body supplied explicitly.
TaskUpdate(set, title, description, completed) ==
    [set |-> set,
     title |-> IF "title" \in set THEN title ELSE None,
     description |-> IF "description" \in set THEN description ELSE None,
     completed |-> IF "completed" \in set THEN completed ELSE None]

\* task_update.model_dump(exclude_unset=True): the supplied fields only.
model_dump_all(task_update) == [f \in Fields |-> task_update[f]]

model_dump_exclude_unset(task_update) ==
    [f \in task_update.set |-> task_update[f]]

\* task.model_copy(update=update_data): no validation of the new values.
model_copy(task, update_data) ==
    [f \in DOMAIN task |->
        IF f \in DOMAIN update_data THEN update_data[f] ELSE task[f]]

\* ------------------------------------------------------ list operations
\* `for i, task in enumerate(tasks): if task.id == task_id`: the first
\* index (from 1) whose task has the id, 0 when the loop runs to its end.
RECURSIVE find_from(_, _, _)
find_from(ts, task_id, i) ==
    IF i > Len(ts) THEN 0
    ELSE IF ts[i].id = task_id THEN i
    ELSE find_from(ts, task_id, i + 1)

find(ts, task_id) == find_from(ts, task_id, 1)

\* tasks.pop(i)
pop_last(ts, i) == SubSeq(ts, 1, Len(ts) - 1)

pop(ts, i) == SubSeq(ts, 1, i - 1) \o SubSeq(ts, i + 1, Len(ts))

\* next_id[0] += 1
bump_stuck(n) == n

bump_len(n) == Len(tasks) + 2

bump(n) == n + 1

\* ------------------------------------------------------- request inputs
\* The values the calls are given.  Titles: empty, blank, plain, and padded
\* with whitespace.  A patch field is null (None) or a value; a null
\* `completed` takes the same path through update_task as a null title or
\* description and is left out of the patches.
TitleInputs == { <<>>, <<" ">>, <<"a">>, <<" ", "a", " ">> }
DescriptionInputs == { <<" ", "d">> }
CompletedInputs == { None, Some(TRUE), Some(FALSE) }

CreateBodies ==
    [title : TitleInputs, description : DescriptionInputs,
     completed : CompletedInputs]

PatchTitles == { None, Some(<<" ">>) }
PatchDescriptions == { None, Some(<<" ", "d">>) }
PatchCompleteds == { Some(TRUE), Some(FALSE) }

Patches ==
    { TaskUpdate(set, t, d, c) :
        set \in SUBSET Fields, t \in PatchTitles,
        d \in PatchDescriptions, c \in PatchCompleteds }

Ids == 1..MaxId

NoReq == [op |-> "none", id |-> 0, fields |-> {}, title |-> None,
          description |-> None, completed |-> None]
NoResp == [status |-> 0, body |-> <<>>]

Threads == {1, 2}
Idle == [pc |-> "idle", op |-> "none", id |-> 0, patch |-> TaskUpdate({}, None, None, None),
         body |-> [title |-> <<>>, description |-> <<>>, completed |-> None],
         i |-> 0, task |-> None, status |-> 0]

Init ==
    /\ tasks = <<>>
    /\ next_id = 1
    /\ req = NoReq
    /\ resp = NoResp
    /\ assigned = {}
    /\ deleted = {}
    /\ patched = {}
    /\ th = [t \in Threads |-> Idle]
    /\ tasks0 = <<>>

Call(op, id, fields, body) ==
    [op |-> op, id |-> id, fields |-> fields, title |-> body.title,
     description |-> body.description, completed |-> body.completed]

NoBody == [title |-> None, description |-> None, completed |-> None]

\* -------------------------------------------------- handlers, one at a time
get_tasks ==
    /\ resp = NoResp
    /\ req' = Call("list", 0, {}, NoBody)
    /\ resp' = [status |-> HTTP_200, body |-> tasks]
    /\ UNCHANGED <<tasks, next_id, assigned, deleted, patched, th, tasks0>>

get_task(task_id) ==
    /\ resp = NoResp
    /\ req' = Call("get", task_id, {}, NoBody)
    /\ LET i == find(tasks, task_id) IN
         resp' = IF i # 0
                 THEN [status |-> HTTP_200, body |-> <<tasks[i]>>]
                 ELSE [status |-> HTTP_404, body |-> <<>>]
    /\ UNCHANGED <<tasks, next_id, assigned, deleted, patched, th, tasks0>>

create_task_consume(body) ==
    /\ resp = NoResp
    /\ next_id <= MaxId
    /\ req' = Call("create", 0, {},
                   [title |-> Some(body.title),
                    description |-> Some(body.description),
                    completed |-> body.completed])
    /\ next_id' = bump(next_id)
    /\ LET task == TaskCreate(body) IN
         IF ~task.ok
         THEN /\ resp' = [status |-> HTTP_422, body |-> <<>>]
              /\ UNCHANGED <<tasks, assigned>>
         ELSE LET new_task == Task(next_id, task) IN
              /\ tasks' = Append(tasks, new_task)
              /\ assigned' = assigned \cup {new_task.id}
              /\ resp' = [status |-> HTTP_201, body |-> <<new_task>>]
    /\ UNCHANGED <<deleted, patched, th, tasks0>>

create_task(body) ==
    /\ resp = NoResp
    /\ next_id <= MaxId
    /\ req' = Call("create", 0, {},
                   [title |-> Some(body.title),
                    description |-> Some(body.description),
                    completed |-> body.completed])
    /\ LET task == TaskCreate(body) IN
         IF ~task.ok
         THEN /\ resp' = [status |-> HTTP_422, body |-> <<>>]
              /\ UNCHANGED <<tasks, next_id, assigned>>
         ELSE LET new_task == Task(next_id, task) IN
              /\ tasks' = Append(tasks, new_task)
              /\ next_id' = bump(next_id)
              /\ assigned' = assigned \cup {new_task.id}
              /\ resp' = [status |-> HTTP_201, body |-> <<new_task>>]
    /\ UNCHANGED <<deleted, patched, th, tasks0>>

update_task(task_id, task_update) ==
    /\ resp = NoResp
    /\ req' = Call("update", task_id, task_update.set, NoBody)
    /\ LET i == find(tasks, task_id) IN
         IF i # 0
         THEN LET update_data == model_dump_exclude_unset(task_update)
                  updated_task == model_copy(tasks[i], update_data)
              IN /\ tasks' = [tasks EXCEPT ![i] = updated_task]
                 /\ resp' = [status |-> HTTP_200, body |-> <<updated_task>>]
                 /\ patched' = IF "title" \in DOMAIN update_data
                               THEN patched \cup {task_id}
                               ELSE patched
         ELSE /\ resp' = [status |-> HTTP_404, body |-> <<>>]
              /\ UNCHANGED <<tasks, patched>>
    /\ UNCHANGED <<next_id, assigned, deleted, th, tasks0>>

delete_task(task_id) ==
    /\ resp = NoResp
    /\ req' = Call("delete", task_id, {}, NoBody)
    /\ LET i == find(tasks, task_id) IN
         IF i # 0
         THEN /\ tasks' = pop(tasks, i)
              /\ resp' = [status |-> HTTP_204, body |-> <<>>]
              /\ deleted' = deleted \cup {task_id}
              /\ patched' = patched \ {task_id}
         ELSE /\ resp' = [status |-> HTTP_404, body |-> <<>>]
              /\ UNCHANGED <<tasks, deleted, patched>>
    /\ UNCHANGED <<next_id, assigned, th, tasks0>>

\* The response goes back to the client; the next call may start.
respond ==
    /\ resp # NoResp
    /\ req' = NoReq
    /\ resp' = NoResp
    /\ UNCHANGED <<tasks, next_id, assigned, deleted, patched, th, tasks0>>

Next ==
    \/ get_tasks
    \/ \E task_id \in Ids : get_task(task_id)
    \/ \E body \in CreateBodies : create_task(body)
    \/ \E task_id \in Ids, task_update \in Patches :
          update_task(task_id, task_update)
    \/ \E task_id \in Ids : delete_task(task_id)
    \/ respond

Spec == Init /\ [][Next]_vars

\* ------------------------------------------- handlers in concurrent threads
\* The route handlers are plain `def` functions: the server runs each call in
\* a thread of its pool, and nothing in main.py locks `tasks` or `next_id`.
\* Each thread handles one call; a step is one statement of the handler (one
\* turn of its `for` loop, one list operation, one counter update).

\* The store after n creates of {"title": "a", "description": " d"}.
RECURSIVE Created(_)
Created(n) ==
    IF n = 0 THEN <<>>
    ELSE Append(Created(n - 1),
                Task(n, TaskCreate([title |-> <<"a">>,
                                    description |-> <<" ", "d">>,
                                    completed |-> None])))

InitConc ==
    /\ \E n \in 0..MaxId :
          /\ tasks = Created(n)
          /\ next_id = n + 1
          /\ assigned = 1..n
    /\ tasks0 = tasks
    /\ req = NoReq
    /\ resp = NoResp
    /\ deleted = {}
    /\ patched = {}
    /\ th = [t \in Threads |-> Idle]

Done(t, status, task) ==
    th' = [th EXCEPT ![t].pc = "done", ![t].status = status, ![t].task = task]

\* GET /tasks: `return tasks`.
conc_get_tasks(t) ==
    /\ th[t].pc = "idle"
    /\ th' = [th EXCEPT ![t].pc = "done", ![t].op = "list",
                        ![t].status = HTTP_200]
    /\ UNCHANGED <<tasks, next_id, req, resp, assigned, deleted, patched, tasks0>>

\* A call arrives and its handler is entered; the loops start at the first
\* element.  A create whose body fails TaskCreate's validation is answered
\* 422 without entering the handler.
conc_call(t, op, task_id, task_update, body) ==
    /\ th[t].pc = "idle"
    /\ th' = [th EXCEPT
                ![t].op = op,
                ![t].id = task_id,
                ![t].patch = task_update,
                ![t].body = body,
                ![t].i = 1,
                ![t].pc = IF op # "create" THEN "loop"
                          ELSE IF TaskCreate(body).ok THEN "new" ELSE "done",
                ![t].status = IF op = "create" /\ ~TaskCreate(body).ok
                              THEN HTTP_422 ELSE 0]
    /\ UNCHANGED <<tasks, next_id, req, resp, assigned, deleted, patched, tasks0>>

\* get_task: one turn of `for task in tasks`.
conc_get_task_loop(t) ==
    /\ th[t].pc = "loop"
    /\ th[t].op = "get"
    /\ IF th[t].i > Len(tasks)
       THEN Done(t, HTTP_404, None)
       ELSE IF tasks[th[t].i].id = th[t].id
       THEN Done(t, HTTP_200, Some(tasks[th[t].i]))
       ELSE th' = [th EXCEPT ![t].i = @ + 1]
    /\ UNCHANGED <<tasks, next_id, req, resp, assigned, deleted, patched, tasks0>>

\* create_task: new_task = Task(id=next_id[0], **task.model_dump())
conc_create_task_new(t) ==
    /\ th[t].pc = "new"
    /\ th' = [th EXCEPT
                ![t].task = Some(Task(next_id, TaskCreate(th[t].body))),
                ![t].pc = "append"]
    /\ UNCHANGED <<tasks, next_id, req, resp, assigned, deleted, patched, tasks0>>

\* create_task: tasks.append(new_task)
conc_create_task_append(t) ==
    /\ th[t].pc = "append"
    /\ tasks' = Append(tasks, Val(th[t].task))
    /\ assigned' = assigned \cup {Val(th[t].task).id}
    /\ th' = [th EXCEPT ![t].pc = "incr"]
    /\ UNCHANGED <<next_id, req, resp, deleted, patched, tasks0>>

\* create_task: next_id[0] += 1; return new_task.  The statement is taken as
\* one step (its read and its write are not split).
conc_create_task_incr(t) ==
    /\ th[t].pc = "incr"
    /\ next_id' = bump(next_id)
    /\ th' = [th EXCEPT ![t].pc = "done", ![t].status = HTTP_201]
    /\ UNCHANGED <<tasks, req, resp, assigned, deleted, patched, tasks0>>

\* update_task: one turn of `for i, task in enumerate(tasks)`; on a match
\* update_data and updated_task are built from the loop's `task`.
conc_update_task_loop(t) ==
    /\ th[t].pc = "loop"
    /\ th[t].op = "update"
    /\ IF th[t].i > Len(tasks)
       THEN Done(t, HTTP_404, None)
       ELSE IF tasks[th[t].i].id = th[t].id
       THEN th' = [th EXCEPT
                     ![t].task =
                        Some(model_copy(tasks[th[t].i],
                                        model_dump_exclude_unset(th[t].patch))),
                     ![t].pc = "assign"]
       ELSE th' = [th EXCEPT ![t].i = @ + 1]
    /\ UNCHANGED <<tasks, next_id, req, resp, assigned, deleted, patched, tasks0>>

\* update_task: tasks[i] = updated_task; an index past the end raises
\* IndexError and the call is answered 500.
conc_update_task_assign(t) ==
    /\ th[t].pc = "assign"
    /\ IF th[t].i > Len(tasks)
       THEN /\ Done(t, HTTP_500, th[t].task)
            /\ UNCHANGED tasks
       ELSE /\ tasks' = [tasks EXCEPT ![th[t].i] = Val(th[t].task)]
            /\ Done(t, HTTP_200, th[t].task)
    /\ UNCHANGED <<next_id, req, resp, assigned, deleted, patched, tasks0>>

\* delete_task: one turn of `for i, task in enumerate(tasks)`.
conc_delete_task_loop(t) ==
    /\ th[t].pc = "loop"
    /\ th[t].op = "delete"
    /\ IF th[t].i > Len(tasks)
       THEN Done(t, HTTP_404, None)
       ELSE IF tasks[th[t].i].id = th[t].id
       THEN th' = [th EXCEPT ![t].pc = "pop"]
       ELSE th' = [th EXCEPT ![t].i = @ + 1]
    /\ UNCHANGED <<tasks, next_id, req, resp, assigned, deleted, patched, tasks0>>

\* delete_task: tasks.pop(i); an index past the end raises IndexError.
conc_delete_task_pop(t) ==
    /\ th[t].pc = "pop"
    /\ IF th[t].i > Len(tasks)
       THEN /\ Done(t, HTTP_500, None)
            /\ UNCHANGED tasks
       ELSE /\ tasks' = pop(tasks, th[t].i)
            /\ Done(t, HTTP_204, None)
    /\ UNCHANGED <<next_id, req, resp, assigned, deleted, patched, tasks0>>

NextConc ==
    \E t \in Threads :
        \/ conc_get_tasks(t)
        \/ \E op \in {"get", "delete"}, task_id \in Ids :
              conc_call(t, op, task_id, Idle.patch, Idle.body)
        \/ \E task_id \in Ids, task_update \in Patches :
              conc_call(t, "update", task_id, task_update, Idle.body)
        \/ \E body \in CreateBodies : conc_call(t, "create", 0, Idle.patch, body)
        \/ conc_get_task_loop(t)
        \/ conc_create_task_new(t)
        \/ conc_create_task_append(t)
        \/ conc_create_task_incr(t)
        \/ conc_update_task_loop(t)
        \/ conc_update_task_assign(t)
        \/ conc_delete_task_loop(t)
        \/ conc_delete_task_pop(t)

SpecConc == InitConc /\ [][NextConc]_vars

\* ------------------------------------------------------------ properties
IdsOf(ts) == { ts[k].id : k \in 1..Len(ts) }

\* t is s without its leading and trailing whitespace.
IsTrimOf(t, s) ==
    \E i \in 1..(Len(s) + 1), j \in 0..Len(s) :
        /\ t = SubSeq(s, i, j)
        /\ \A k \in 1..(i - 1) : s[k] \in Whitespace
        /\ \A k \in (j + 1)..Len(s) : s[k] \in Whitespace
        /\ t # <<>> => (t[1] \notin Whitespace /\ t[Len(t)] \notin Whitespace)

\* A stored title that is a string and is not empty once trimmed.
NonEmptyTitle(task) ==
    /\ task.title # None
    /\ \E k \in 1..Len(Val(task.title)) : Val(task.title)[k] \notin Whitespace

\* C1: a successful create returns an id strictly greater than every id an
\* earlier create assigned (deleted ones included), so the id is fresh, and
\* the ids in the store stay pairwise distinct.
C1_CreateIdsIncrease ==
    [][resp'.status = HTTP_201 =>
          /\ \A j \in assigned : resp'.body[1].id > j
          /\ resp'.body[1].id \notin deleted
          /\ assigned' = assigned \cup {resp'.body[1].id}
          /\ Cardinality(IdsOf(tasks')) = Len(tasks')]_vars

C1_Witness ==
    /\ resp.status = HTTP_201
    /\ deleted # {}
    /\ \E j \in deleted : resp.body[1].id > j

\* C2: a create whose title is empty after trimming fails with 422 and adds
\* no task; any other create succeeds, appends the new task at the end, and
\* stores the trimmed title and the description as given.
C2_CreateValidatesAndTrims ==
    [][req'.op = "create" =>
          IF \A k \in 1..Len(Val(req'.title)) : Val(req'.title)[k] \in Whitespace
          THEN /\ resp'.status = HTTP_422
               /\ tasks' = tasks
          ELSE /\ resp'.status = HTTP_201
               /\ Len(tasks') = Len(tasks) + 1
               /\ SubSeq(tasks', 1, Len(tasks)) = tasks
               /\ resp'.body = <<tasks'[Len(tasks')]>>
               /\ tasks'[Len(tasks')].title # None
               /\ IsTrimOf(Val(tasks'[Len(tasks')].title), Val(req'.title))
               /\ tasks'[Len(tasks')].description = req'.description]_vars

C2_Witness ==
    /\ req.op = "create"
    /\ resp.status = HTTP_201
    /\ Len(tasks) >= 2
    /\ req.title # tasks[Len(tasks)].title
    /\ req.description = Some(<<" ", "d">>)

\* C3: a successful update changes only the supplied fields of the target
\* task: omitted fields, the task's id and position, every other task, the
\* length of the list and the counter stay as they were; an empty patch
\* leaves the store identical; the response is the task as now stored.
C3_UpdateFrame ==
    [][(req'.op = "update" /\ resp'.status = HTTP_200) =>
          /\ Len(tasks') = Len(tasks)
          /\ next_id' = next_id
          /\ \E i \in 1..Len(tasks) :
                /\ tasks[i].id = req'.id
                /\ tasks'[i].id = req'.id
                /\ \A f \in Fields \ req'.fields : tasks'[i][f] = tasks[i][f]
                /\ \A k \in 1..Len(tasks) : k # i => tasks'[k] = tasks[k]
                /\ resp'.body = <<tasks'[i]>>
          /\ req'.fields = {} => tasks' = tasks]_vars

C3_Witness ==
    /\ req.op = "update"
    /\ resp.status = HTTP_200
    /\ req.fields = {"completed"}
    /\ Len(tasks) = 3
    /\ req.id = tasks[2].id
    /\ tasks[2].completed = Some(TRUE)
    /\ tasks[2].description = Some(<<" ", "d">>)

\* C4: a call that fails (422 on create, 404 on get, update or delete)
\* changes neither the list nor the counter.
C4_FailureHasNoEffect ==
    [][resp'.status \in {HTTP_404, HTTP_422} =>
          /\ tasks' = tasks
          /\ next_id' = next_id]_vars

C4_Witness ==
    /\ resp.status = HTTP_422
    /\ req.op = "create"
    /\ tasks # <<>>
    /\ next_id <= MaxId

\* C5: once a delete of an id has succeeded, every later get, update or
\* delete of that id answers 404, whatever was called in between; the id is
\* never in the store again.
C5_DeletedStaysGone ==
    [][/\ (req'.op \in {"get", "update", "delete"} /\ req'.id \in deleted)
            => resp'.status = HTTP_404
       /\ \A j \in deleted' : j \notin IdsOf(tasks')]_vars

C5_Witness ==
    /\ req.op = "delete"
    /\ req.id \in deleted
    /\ resp.status = HTTP_404
    /\ \E k \in 1..Len(tasks) : tasks[k].id > req.id

\* C6: a successful delete takes exactly the task with that id out of the
\* list, the others unchanged and in the same order, the counter unchanged;
\* list returns the list as it stands.
C6_DeleteRemovesExactlyOne ==
    [][/\ (req'.op = "delete" /\ resp'.status = HTTP_204) =>
            /\ next_id' = next_id
            /\ Cardinality({i \in 1..Len(tasks) : tasks[i].id = req'.id}) = 1
            /\ \E i \in 1..Len(tasks) :
                  /\ tasks[i].id = req'.id
                  /\ Len(tasks') = Len(tasks) - 1
                  /\ \A k \in 1..Len(tasks') :
                        tasks'[k] = IF k < i THEN tasks[k] ELSE tasks[k + 1]
       /\ req'.op = "list" => (resp'.body = tasks /\ tasks' = tasks)]_vars

C6_Witness ==
    /\ req.op = "delete"
    /\ resp.status = HTTP_204
    /\ Len(tasks) = 2
    /\ tasks[1].id < req.id
    /\ req.id < tasks[2].id

\* C7 as stated: every stored title that is a string is non-empty after
\* trimming (a null title is the subject of C8).
C7_Original ==
    \A k \in 1..Len(tasks) :
        tasks[k].title # None => NonEmptyTitle(tasks[k])

\* C7 amended: every stored task whose title no update has supplied has a
\* title that is a string, non-empty and already trimmed.
C7_UnpatchedTitleNonEmpty ==
    \A k \in 1..Len(tasks) :
        tasks[k].id \notin patched =>
            /\ NonEmptyTitle(tasks[k])
            /\ IsTrimOf(Val(tasks[k].title), Val(tasks[k].title))

C7_Witness ==
    /\ req.op = "update"
    /\ resp.status = HTTP_200
    /\ req.fields = {"description", "completed"}
    /\ req.id \notin patched
    /\ \E k \in 1..Len(tasks) : tasks[k].id \in patched

\* C8: every stored task has the Task shape: an integer id, string title and
\* description and a boolean completed, none of them null.
C8_TaskShape ==
    \A k \in 1..Len(tasks) :
        /\ tasks[k].id \in Nat
        /\ tasks[k].title # None
        /\ tasks[k].description # None
        /\ tasks[k].completed # None

\* C9: two creates that interleave statement by statement still hand out two
\* distinct ids and leave the counter advanced by exactly 2.
C9_ConcurrentCreatesDistinctIds ==
    (\A t \in Threads : th[t].op = "create" /\ th[t].status = HTTP_201) =>
        /\ Val(th[1].task).id # Val(th[2].task).id
        /\ Cardinality(IdsOf(tasks)) = Len(tasks)
        /\ next_id = Len(tasks0) + 1 + 2

\* The store after update(a, task_update) and delete(b) run one after the
\* other on ts, for two different ids present in ts.
SerialUpdateDelete(ts, a, task_update, b) ==
    LET i == find(ts, a)
        upd == [ts EXCEPT ![i] = model_copy(ts[i],
                                   model_dump_exclude_unset(task_update))]
    IN pop(upd, find(upd, b))

\* C10: an update of task A that runs concurrently with a delete of another
\* task B, and whose loop has found A, ends as some serial order of the two
\* calls would: both succeed (the write is never past the end of the list),
\* the write landed on A, B alone is gone, no id is in the list twice.
C10_UpdateDeleteSerializable ==
    \A u \in Threads, d \in Threads :
        (/\ th[u].op = "update" /\ th[u].pc = "done"
         /\ th[d].op = "delete" /\ th[d].pc = "done"
         /\ th[u].id # th[d].id
         /\ th[u].status # HTTP_404
         /\ {th[u].id, th[d].id} \subseteq IdsOf(tasks0)) =>
            /\ th[u].status = HTTP_200
            /\ th[d].status = HTTP_204
            /\ tasks = SerialUpdateDelete(tasks0, th[u].id, th[u].patch, th[d].id)
            /\ Cardinality(IdsOf(tasks)) = Len(tasks)

====
